---- MODULE Spec2Model ----
(***************************************************************************)
(* Geocoin Carrier (src/src/main.ts): the cache / coin state engine, and   *)
(* the earlier variant of it that src/src/board.ts carries (board_ names), *)
(* and the Board class of src/src/board.ts, the registry of Cell objects.  *)
(*                                                                         *)
(* Coordinates are integers counting TILE_UNIT steps (1e-4 degree) from    *)
(* CLASSROOM_LOCATION; the player moves by whole TILE_UNIT steps and every *)
(* cache key is origin + dx * tileSize, so every key is a pair of such     *)
(* integers, with exact arithmetic (the rounding of the doubles is left    *)
(* out).  A cache key `${lat},${lng}` is the pair <<lat, lng>>: a          *)
(* JavaScript number printed in a template string and read back with       *)
(* Number() is the same number, so the pair stands for the string.         *)
(*                                                                         *)
(* luck(key) is a number in [0,1); the code uses it as luck < CACHE_ODDS   *)
(* and as floor(luck * 100), so it is kept as the integer floor(luck*100). *)
(*                                                                         *)
(* The handlers pickUpCoins and returnCoin are the operations; they run    *)
(* for the caches that have a marker on the map.                           *)
(***************************************************************************)
EXTENDS Integers, Sequences, FiniteSets, TLC

\* ---- program constants (main.ts 37-44) ----
CLASSROOM_LOCATION == <<0, 0>>
TILE_UNIT == 1
NEIGHBORHOOD_SIZE == 8
\* 0.1, in hundredths as the luck values
CACHE_ODDS == 10

\* ---- bounds of the model ----
MaxLat == 1
MaxLng == 1
MaxInventory == 2
MaxCacheLen == 2

\* null, where the code holds a number or nothing
NULL == 0

Lats == 0..MaxLat
Lngs == 0..MaxLng
Positions == Lats \X Lngs

\* every key a window around a reachable position can name
Keys == ((0 - NEIGHBORHOOD_SIZE * TILE_UNIT)..(MaxLat + NEIGHBORHOOD_SIZE * TILE_UNIT))
          \X ((0 - NEIGHBORHOOD_SIZE * TILE_UNIT)..(MaxLng + NEIGHBORHOOD_SIZE * TILE_UNIT))

VARIABLES
  seed,             \* which luck function this run uses (luck.ts is pure: never changes)
  playerPosition,   \* player.position
  caches,           \* Map<string, GameCache>: key -> treasures array content
  cacheStates,      \* CacheManager.cacheStates: key -> memento's treasures array content
  shared,           \* keys whose active cache's treasures array IS the memento's array
  playerTreasures,  \* playerTreasures: UserTreasure[]
  statusPanel,      \* statusPanel.innerHTML
  geoWatchId,       \* geoWatchId
  geoWatches,       \* the watch ids registered with navigator.geolocation
  lastOp,           \* history: the handler that ran last, with what it did
  tileWidth,        \* Board.tileWidth
  tileVisibilityRadius, \* Board.tileVisibilityRadius
  knownCells,       \* Board.knownCells: key string -> address of the Cell object
  cellHeap,         \* the Cell objects allocated so far; an address is an index
  boardCall,        \* history: the Board method called last, with what it returned
  returned          \* history: every Cell reference a Board method has returned

gameVars == <<seed, playerPosition, caches, cacheStates, shared, playerTreasures,
              statusPanel, geoWatchId, geoWatches, lastOp>>

boardVars == <<tileWidth, tileVisibilityRadius, knownCells, cellHeap, boardCall,
               returned>>

vars == <<gameVars, boardVars>>

\* ---- luck.ts: a pure function key -> [0,1), here in hundredths ----
Seeds == 1..2
TransferSeeds == 1..3

\* floor(luck * 100) for luck in [0,1)
LuckValues == 0..99

\* one seed for each value the cell north of the start can roll
MintSeeds == { 100 + v : v \in LuckValues }

\* the cells that pass the spawn roll under each seed, with floor(luck * 100):
\* seed 1, a cell at the start position and one that only enters the window
\* at the far end of the walk; seed 2, one cell that is always in the window;
\* seed 3, two cells in the first window; seed 100 + v, the cell north of the
\* start rolls v
LuckHits1 == (<<0, 0>> :> 0) @@ (<<MaxLat + NEIGHBORHOOD_SIZE, 0>> :> 0)
LuckHits2 == (<<1, 0>> :> 1)
LuckHits3 == (<<1, 0>> :> 0) @@ (<<2, 1>> :> 1)

LuckHits ==
  CASE seed = 1 -> LuckHits1 [] seed = 2 -> LuckHits2 [] seed = 3 -> LuckHits3
    [] OTHER -> (<<1, 0>> :> (seed - 100))

\* every other cell fails the roll
LuckMiss == 50

luck(key) == IF key \in DOMAIN LuckHits THEN LuckHits[key] ELSE LuckMiss

\* ---- helpers ----
Abs(x) == IF x < 0 THEN 0 - x ELSE x

ISqrt(n, hi) == CHOOSE r \in 0..hi : r * r <= n /\ (r + 1) * (r + 1) > n

\* metres per TILE_UNIT of latitude / of longitude at CLASSROOM_LOCATION
MetresPerLat == 11
MetresPerLng == 9

\* coord1.distanceTo(coord2): metres on the ground, here in units of 1e-4 m
\* so that it compares with vicinity * tileSize as the code compares them
calculateDistance(coord1, coord2) ==
  LET a == MetresPerLat * Abs(coord1[1] - coord2[1])
      b == MetresPerLng * Abs(coord1[2] - coord2[2])
  IN  10000 * ISqrt(a * a + b * b, a + b)

\* array.pop(): the value it returns, and the array it leaves
Last_first(s) == s[1]

Last(s) == s[Len(s)]

Pop_keep(s) == s

Pop(s) == SubSeq(s, 1, Len(s) - 1)

Coin(id, lat, lng) == [id |-> id, originalLat |-> lat, originalLng |-> lng]

UserTreasure_here(coin, lat, lng) ==
  [id |-> coin.id, coordinates |-> <<lat, lng>>,
   originalLat |-> lat, originalLng |-> lng]

UserTreasure(coin, lat, lng) ==
  [id |-> coin.id, coordinates |-> <<lat, lng>>,
   originalLat |-> coin.originalLat, originalLng |-> coin.originalLng]

MintCoins_from1(key, numCoins) ==
  [n \in 1..numCoins |-> Coin(n, key[1], key[2])]

\* Array.from({length: numCoins}, (_, id) => ({id, originalLat, originalLng}))
MintCoins(key, numCoins) ==
  [n \in 1..numCoins |-> Coin(n - 1, key[1], key[2])]

CacheMemento_short(treasures) ==
  [n \in 1..(Len(treasures) - 1) |-> treasures[n]]

\* new CacheMemento(treasures): treasures.map(t => ({...t})), a fresh array
CacheMemento(treasures) == [n \in 1..Len(treasures) |-> treasures[n]]

\* CacheManager.restoreCacheState: the memento's own array, or a fresh []
restoreCacheState(cs, key) == IF key \in DOMAIN cs THEN cs[key] ELSE <<>>

\* the keys the two loops of initiateCaches build: origin + d * tileSize
Window(origin, vicinity, tileSize) ==
  { <<origin[1] + dx * tileSize, origin[2] + dy * tileSize>> :
      dx \in (0 - vicinity)..vicinity, dy \in (0 - vicinity)..vicinity }

\* key \in Window(origin, vicinity, tileSize), one axis at a time
InWindow(key, origin, vicinity, tileSize) ==
  /\ \E dx \in (0 - vicinity)..vicinity : key[1] = origin[1] + dx * tileSize
  /\ \E dy \in (0 - vicinity)..vicinity : key[2] = origin[2] + dy * tileSize

\* the generator key of the spawn roll of a cell: luck(cacheKey)
SpawnRollKey(key) == key

CountRollKey_init(key) == <<key[1], key[2], "init">>

\* the generator key of its coin count: luck(cacheKey) again
CountRollKey(key) == key

\* the treasures array initiateCaches ends with for a key not in caches
RollPasses(cs, key) ==
  Len(restoreCacheState(cs, key)) = 0 /\ luck(SpawnRollKey(key)) < CACHE_ODDS

TreasuresFor(cs, key) ==
  IF RollPasses(cs, key)
    THEN restoreCacheState(cs, key)
           \o MintCoins(key, luck(CountRollKey(key)) + 1)
    ELSE restoreCacheState(cs, key)

\* initiateCaches(origin, vicinity, tileSize) on the maps (c, cs, sh).
\* Each pass of the loop body reads and writes its own key only, so the
\* passes are taken together; a key with no memento and a failed roll ends
\* with treasures = [] and changes nothing, so the passes that can create a
\* cache are those of the keys with a memento or a passing roll.
initiateCaches(c, cs, sh, origin, vicinity, tileSize) ==
  LET visited == { k \in (DOMAIN cs) \cup (DOMAIN LuckHits) :
                     InWindow(k, origin, vicinity, tileSize) /\ k \notin DOMAIN c }
      created == { k \in visited : Len(TreasuresFor(cs, k)) > 0 }
      minted  == { k \in visited : RollPasses(cs, k) }
  IN  [ caches |-> [k \in (DOMAIN c) \cup created |->
                      IF k \in DOMAIN c THEN c[k] ELSE TreasuresFor(cs, k)],
        \* the push lands in the memento's array when restore returned it
        cacheStates |-> [k \in DOMAIN cs |->
                      IF RollPasses(cs, k) /\ k \in visited
                        THEN TreasuresFor(cs, k) ELSE cs[k]],
        shared |-> sh \cup (created \cap DOMAIN cs),
        minted |-> minted ]

\* regenerateCaches(playerPosition, vicinity, tileSize)
regenerateCaches(c, cs, sh, position, vicinity, tileSize) ==
  LET evicted == { k \in DOMAIN c :
                     calculateDistance(position, k) > vicinity * tileSize }
      cs1 == [k \in (DOMAIN cs) \cup evicted |->
                IF k \in evicted THEN CacheMemento(c[k]) ELSE cs[k]]
      c1  == [k \in (DOMAIN c) \ evicted |-> c[k]]
      r   == initiateCaches(c1, cs1, sh \ evicted, position, vicinity, tileSize)
  IN  [ caches |-> r.caches, cacheStates |-> r.cacheStates, shared |-> r.shared,
        minted |-> r.minted, evicted |-> evicted ]

EmptyMap == [k \in {} |-> <<>>]

\* history record: handler, its argument, the keys it minted coins for, and
\* whether a coin changed hands
Op(name, key, minted, moved) ==
  [op |-> name, key |-> key, minted |-> minted, moved |-> moved]

\* the game code constructs no Board
NoBoard ==
  /\ tileWidth = 0
  /\ tileVisibilityRadius = 0
  /\ knownCells = <<>>
  /\ cellHeap = <<>>
  /\ boardCall = [op |-> "none", point |-> <<0, 0>>, result |-> <<>>, allocated |-> 0]
  /\ returned = {}

\* the module's top-level statements
InitGame(seeds) ==
  /\ seed \in seeds
  /\ playerPosition = CLASSROOM_LOCATION
  /\ LET r == initiateCaches(EmptyMap, EmptyMap, {}, CLASSROOM_LOCATION,
                             NEIGHBORHOOD_SIZE, TILE_UNIT)
     IN  /\ caches = r.caches
         /\ cacheStates = r.cacheStates
         /\ shared = r.shared
         /\ lastOp = Op("init", CLASSROOM_LOCATION, r.minted, FALSE)
  /\ playerTreasures = <<>>
  /\ statusPanel = <<"Player has no coins">>
  /\ geoWatchId = NULL
  /\ geoWatches = {}

InitWith(seeds) == InitGame(seeds) /\ NoBoard

Init == InitWith(Seeds)

\* Player.move
move(position, direction, granularity) ==
  CASE direction = "north" -> <<position[1] + granularity, position[2]>>
    [] direction = "south" -> <<position[1] - granularity, position[2]>>
    [] direction = "east"  -> <<position[1], position[2] + granularity>>
    [] direction = "west"  -> <<position[1], position[2] - granularity>>
    [] OTHER -> position

KeyNames == {"ArrowUp", "ArrowDown", "ArrowLeft", "ArrowRight", "Other"}

KeyTarget(key) ==
  CASE key = "ArrowUp"    -> move(playerPosition, "north", TILE_UNIT)
    [] key = "ArrowDown"  -> move(playerPosition, "south", TILE_UNIT)
    [] key = "ArrowLeft"  -> move(playerPosition, "west", TILE_UNIT)
    [] key = "ArrowRight" -> move(playerPosition, "east", TILE_UNIT)
    [] OTHER -> playerPosition

\* the handlers that re-evaluate the window
RegenOps == {"keydown", "geoPosition"}

Regenerate(name, position) ==
  LET r == regenerateCaches(caches, cacheStates, shared, position,
                            NEIGHBORHOOD_SIZE, TILE_UNIT)
  IN  /\ playerPosition' = position
      /\ caches' = r.caches
      /\ cacheStates' = r.cacheStates
      /\ shared' = r.shared
      /\ lastOp' = Op(name, CLASSROOM_LOCATION, r.minted, FALSE)

\* document.addEventListener("keydown", ...)
KeyDown ==
  \E key \in KeyNames :
    /\ KeyTarget(key) \in Positions
    /\ Regenerate("keydown", KeyTarget(key))
    /\ UNCHANGED <<boardVars, seed, playerTreasures, statusPanel, geoWatchId, geoWatches>>

\* navigator.geolocation.watchPosition returns an id no live watch has
NewWatchId ==
  CHOOSE n \in 1..(Cardinality(geoWatches) + 1) : n \notin geoWatches

startGeolocationTracking_noguard ==
  /\ geoWatchId' = NewWatchId
  /\ geoWatches' = geoWatches \cup {NewWatchId}

\* startGeolocationTracking: a second start while tracking returns at once
startGeolocationTracking ==
  IF geoWatchId # NULL
    THEN UNCHANGED <<geoWatchId, geoWatches>>
    ELSE /\ geoWatchId' = NewWatchId
         /\ geoWatches' = geoWatches \cup {NewWatchId}

stopGeolocationTracking_keep ==
  IF geoWatchId # NULL
    THEN /\ geoWatches' = geoWatches
         /\ geoWatchId' = NULL
    ELSE UNCHANGED <<geoWatchId, geoWatches>>

\* stopGeolocationTracking: clearWatch(geoWatchId), then geoWatchId = null
stopGeolocationTracking ==
  IF geoWatchId # NULL
    THEN /\ geoWatches' = geoWatches \ {geoWatchId}
         /\ geoWatchId' = NULL
    ELSE UNCHANGED <<geoWatchId, geoWatches>>

\* history record of a call of startGeolocationTracking: registered when the
\* call went past its guard
Started ==
  [op |-> "startGeolocationTracking", key |-> CLASSROOM_LOCATION, minted |-> {},
   moved |-> FALSE, registered |-> (geoWatchId = NULL)]

\* geoButton click: start when geoWatchId is null, stop otherwise
GeoButtonClick ==
  /\ IF geoWatchId = NULL
       THEN /\ startGeolocationTracking
            /\ lastOp' = Started
       ELSE /\ stopGeolocationTracking
            /\ lastOp' = Op("stopGeolocationTracking", CLASSROOM_LOCATION, {}, FALSE)
  /\ UNCHANGED <<boardVars, seed, playerPosition, caches, cacheStates, shared,
                 playerTreasures, statusPanel>>

\* positions the geolocation service reports
GeoSamples == Positions

\* the watchPosition success callback: the service calls it for a watch
\* that is registered, and for no other
GeoPosition ==
  \E newLocation \in GeoSamples :
    /\ geoWatches # {}
    /\ Regenerate("geoPosition", newLocation)
    /\ UNCHANGED <<boardVars, seed, playerTreasures, statusPanel, geoWatchId, geoWatches>>

\* an array shared with the memento changes in both maps at once
WriteTreasures(key, treasures) ==
  /\ caches' = [caches EXCEPT ![key] = treasures]
  /\ cacheStates' = IF key \in shared
                      THEN [cacheStates EXCEPT ![key] = treasures]
                      ELSE cacheStates

\* history record of a collect that moved a coin: with the cache's coins and
\* the inventory as they were before it
Collected(key) ==
  [op |-> "pickUpCoins", key |-> key, minted |-> {}, moved |-> TRUE,
   before |-> [treasures |-> caches[key], inventory |-> playerTreasures]]

\* history record of a deposit that moved a coin: roundTrip when the handler
\* before it was a collect from the same cache that moved a coin
Deposited(key) ==
  [op |-> "returnCoin", key |-> key, minted |-> {}, moved |-> TRUE,
   roundTrip |-> (lastOp.op = "pickUpCoins" /\ lastOp.moved /\ lastOp.key = key)]

pickUpCoins_nocheck(lat, lng) ==
  LET cacheKey == <<lat, lng>>
  IN  IF cacheKey \in DOMAIN caches
        THEN LET empty == caches[cacheKey] = <<>>
                 coin == IF empty THEN Coin(0, lat, lng) ELSE Last(caches[cacheKey])
             IN  /\ Len(playerTreasures) < MaxInventory
                 /\ WriteTreasures(cacheKey,
                      IF empty THEN <<>> ELSE Pop(caches[cacheKey]))
                 /\ playerTreasures' =
                      Append(playerTreasures, UserTreasure(coin, lat, lng))
                 /\ statusPanel' = <<"Collected coin", coin.id, lat, lng>>
                 /\ lastOp' = Op("pickUpCoins", cacheKey, {}, ~empty)
        ELSE /\ lastOp' = Op("pickUpCoins", cacheKey, {}, FALSE)
             /\ UNCHANGED <<caches, cacheStates, playerTreasures, statusPanel>>

pickUpCoins_shift(lat, lng) ==
  LET cacheKey == <<lat, lng>>
  IN  IF cacheKey \in DOMAIN caches /\ Len(caches[cacheKey]) > 0
        THEN LET coin == Head(caches[cacheKey])
             IN  /\ Len(playerTreasures) < MaxInventory
                 /\ WriteTreasures(cacheKey, Tail(caches[cacheKey]))
                 /\ playerTreasures' =
                      Append(playerTreasures, UserTreasure(coin, lat, lng))
                 /\ statusPanel' = <<"Collected coin", coin.id, lat, lng>>
                 /\ lastOp' = Collected(cacheKey)
        ELSE /\ lastOp' = Op("pickUpCoins", cacheKey, {}, FALSE)
             /\ UNCHANGED <<caches, cacheStates, playerTreasures, statusPanel>>

\* pickUpCoins(lat, lng), called by the Collect button of a cache's popup
pickUpCoins(lat, lng) ==
  LET cacheKey == <<lat, lng>>
  IN  IF cacheKey \in DOMAIN caches /\ Len(caches[cacheKey]) > 0
        THEN LET coin == Last(caches[cacheKey])
             IN  /\ Len(playerTreasures) < MaxInventory
                 /\ WriteTreasures(cacheKey, Pop(caches[cacheKey]))
                 /\ playerTreasures' =
                      Append(playerTreasures, UserTreasure(coin, lat, lng))
                 /\ statusPanel' = <<"Collected coin", coin.id, lat, lng>>
                 /\ lastOp' = Collected(cacheKey)
        ELSE /\ lastOp' = Op("pickUpCoins", cacheKey, {}, FALSE)
             /\ UNCHANGED <<caches, cacheStates, playerTreasures, statusPanel>>

returnCoin_nocheck(lat, lng) ==
  LET cacheKey == <<lat, lng>>
  IN  IF cacheKey \in DOMAIN caches
        THEN LET empty == playerTreasures = <<>>
                 coin == IF empty THEN Coin(0, lat, lng)
                                  ELSE Coin(Last(playerTreasures).id,
                                            Last(playerTreasures).originalLat,
                                            Last(playerTreasures).originalLng)
             IN  /\ Len(caches[cacheKey]) < MaxCacheLen
                 /\ playerTreasures' =
                      IF empty THEN <<>> ELSE Pop(playerTreasures)
                 /\ WriteTreasures(cacheKey, Append(caches[cacheKey], coin))
                 /\ statusPanel' = <<"Deposited coin", coin.id, lat, lng>>
                 /\ lastOp' = Op("returnCoin", cacheKey, {}, ~empty)
        ELSE /\ lastOp' = Op("returnCoin", cacheKey, {}, FALSE)
             /\ UNCHANGED <<caches, cacheStates, playerTreasures, statusPanel>>

returnCoin_unshift(lat, lng) ==
  LET cacheKey == <<lat, lng>>
  IN  IF cacheKey \in DOMAIN caches /\ Len(playerTreasures) > 0
        THEN LET treasure == Last(playerTreasures)
                 coin == Coin(treasure.id, treasure.originalLat,
                              treasure.originalLng)
             IN  /\ Len(caches[cacheKey]) < MaxCacheLen
                 /\ playerTreasures' = Pop(playerTreasures)
                 /\ WriteTreasures(cacheKey, <<coin>> \o caches[cacheKey])
                 /\ statusPanel' = <<"Deposited coin", treasure.id, lat, lng>>
                 /\ lastOp' = Op("returnCoin", cacheKey, {}, TRUE)
        ELSE /\ lastOp' = Op("returnCoin", cacheKey, {}, FALSE)
             /\ UNCHANGED <<caches, cacheStates, playerTreasures, statusPanel>>

\* returnCoin(lat, lng), called by the Deposit button of a cache's popup
returnCoin(lat, lng) ==
  LET cacheKey == <<lat, lng>>
  IN  IF cacheKey \in DOMAIN caches /\ Len(playerTreasures) > 0
        THEN LET treasure == Last(playerTreasures)
                 coin == Coin(treasure.id, treasure.originalLat,
                              treasure.originalLng)
             IN  /\ Len(caches[cacheKey]) < MaxCacheLen
                 /\ playerTreasures' = Pop(playerTreasures)
                 /\ WriteTreasures(cacheKey, Append(caches[cacheKey], coin))
                 /\ statusPanel' = <<"Deposited coin", treasure.id, lat, lng>>
                 /\ lastOp' = Deposited(cacheKey)
        ELSE /\ lastOp' = Op("returnCoin", cacheKey, {}, FALSE)
             /\ UNCHANGED <<caches, cacheStates, playerTreasures, statusPanel>>

\* the popup buttons exist for the caches that have a marker on the map
Collect ==
  \E k \in DOMAIN caches :
    /\ pickUpCoins(k[1], k[2])
    /\ UNCHANGED <<boardVars, seed, playerPosition, shared, geoWatchId, geoWatches>>

Deposit ==
  \E k \in DOMAIN caches :
    /\ returnCoin(k[1], k[2])
    /\ UNCHANGED <<boardVars, seed, playerPosition, shared, geoWatchId, geoWatches>>

\* keyboard movement and the popup buttons
Next == KeyDown \/ Collect \/ Deposit

Spec == Init /\ [][Next]_vars

\* the same with geolocation tracking
NextGeo == Next \/ GeoButtonClick \/ GeoPosition

SpecGeo == Init /\ [][NextGeo]_vars

\* resetGameState, the resetButton's click handler: confirm() may be declined.
\* caches.clear() empties the map; the mementos of the CacheManager stay, so
\* initiateCaches restores from them.
resetGameState(confirmed) ==
  IF confirmed
    THEN LET r == initiateCaches(EmptyMap, cacheStates, {}, CLASSROOM_LOCATION,
                                 NEIGHBORHOOD_SIZE, TILE_UNIT)
         IN  /\ caches' = r.caches
             /\ cacheStates' = r.cacheStates
             /\ shared' = r.shared
             /\ playerTreasures' = <<>>
             /\ playerPosition' = CLASSROOM_LOCATION
             /\ lastOp' = Op("resetGameState", CLASSROOM_LOCATION, r.minted, TRUE)
    ELSE /\ lastOp' = Op("resetGameState", CLASSROOM_LOCATION, {}, FALSE)
         /\ UNCHANGED <<caches, cacheStates, shared, playerTreasures,
                        playerPosition>>

ResetGameState ==
  \E confirmed \in BOOLEAN :
    /\ resetGameState(confirmed)
    /\ UNCHANGED <<boardVars, seed, statusPanel, geoWatchId, geoWatches>>

\* every handler of main.ts, from the first window of one luck function
ResetSeeds == {2}

InitReset == InitWith(ResetSeeds)

NextReset == NextGeo \/ ResetGameState

SpecReset == InitReset /\ [][NextReset]_vars

\* keyboard movement and the popup buttons, for every value of the roll
InitMint == InitWith(MintSeeds)

SpecMint == InitMint /\ [][Next]_vars

\* startGeolocationTracking and stopGeolocationTracking called in any order
StartCall ==
  /\ startGeolocationTracking
  /\ lastOp' = Started
  /\ UNCHANGED <<boardVars, seed, playerPosition, caches, cacheStates, shared,
                 playerTreasures, statusPanel>>

StopCall ==
  /\ stopGeolocationTracking
  /\ lastOp' = Op("stopGeolocationTracking", CLASSROOM_LOCATION, {}, FALSE)
  /\ UNCHANGED <<boardVars, seed, playerPosition, caches, cacheStates, shared,
                 playerTreasures, statusPanel>>

NextWatch == NextReset \/ StartCall \/ StopCall

SpecWatch == InitReset /\ [][NextWatch]_vars

\* collect and deposit alone, from any first window
InitTransfer == InitWith(TransferSeeds)

NextTransfer == Collect \/ Deposit

SpecTransfer == InitTransfer /\ [][NextTransfer]_vars

\* ---- the variant in board.ts (lines 139-554): no mementos, no eviction ----

\* luck([lat, lng, "init"].toString()): the coin count has a key of its own
board_LuckInit1 == (<<0, 0>> :> 1) @@ (<<MaxLat + NEIGHBORHOOD_SIZE, 0>> :> 0)
board_LuckInit2 == (<<1, 0>> :> 0)
board_LuckInit3 == (<<1, 0>> :> 1) @@ (<<2, 1>> :> 0)

board_luckInit(key) ==
  LET hits == CASE seed = 1 -> board_LuckInit1 [] seed = 2 -> board_LuckInit2
                [] OTHER -> board_LuckInit3
  IN  IF key \in DOMAIN hits THEN hits[key] ELSE LuckMiss

\* initiateCaches of board.ts on the map c
board_initiateCaches(c, origin, vicinity, tileSize) ==
  LET created == { k \in DOMAIN LuckHits :
                     /\ InWindow(k, origin, vicinity, tileSize)
                     /\ k \notin DOMAIN c
                     /\ luck(k) < CACHE_ODDS }
  IN  [k \in (DOMAIN c) \cup created |->
         IF k \in DOMAIN c THEN c[k] ELSE MintCoins(k, board_luckInit(k) + 1)]

\* playerPosition comes from localStorage when a session saved it
InitBoard ==
  /\ seed \in TransferSeeds
  /\ playerPosition \in Positions
  /\ caches = board_initiateCaches(EmptyMap, CLASSROOM_LOCATION,
                                   NEIGHBORHOOD_SIZE, TILE_UNIT)
  /\ cacheStates = EmptyMap
  /\ shared = {}
  /\ playerTreasures = <<>>
  /\ statusPanel = <<"Player has no coins">>
  /\ geoWatchId = NULL
  /\ geoWatches = {}
  /\ NoBoard
  /\ lastOp = Op("init", CLASSROOM_LOCATION, DOMAIN caches, FALSE)

\* the keydown handler of board.ts: other keys return at once
BoardKeyDown ==
  \E key \in KeyNames \ {"Other"} :
    /\ KeyTarget(key) \in Positions
    /\ playerPosition' = KeyTarget(key)
    /\ statusPanel' = <<"Player moved to", playerPosition'[1], playerPosition'[2]>>
    /\ lastOp' = Op("keydown", CLASSROOM_LOCATION, {}, FALSE)
    /\ UNCHANGED <<boardVars, seed, caches, cacheStates, shared, playerTreasures,
                   geoWatchId, geoWatches>>

\* pickUpCoins of board.ts (397-431) moves the coin as main.ts does
board_pickUpCoins(lat, lng) == pickUpCoins(lat, lng)

\* returnCoin of board.ts
board_returnCoin(lat, lng) ==
  LET positionKey == <<lat, lng>>
  IN  IF positionKey \notin DOMAIN caches \/ Len(playerTreasures) = 0
        THEN /\ statusPanel' = <<"No coins available for deposit!">>
             /\ lastOp' = Op("returnCoin", positionKey, {}, FALSE)
             /\ UNCHANGED <<caches, cacheStates, playerTreasures>>
        ELSE LET coinToDeposit == Last(playerTreasures)
             IN  /\ Len(caches[positionKey]) < MaxCacheLen
                 /\ playerTreasures' = Pop(playerTreasures)
                 /\ WriteTreasures(positionKey,
                      Append(caches[positionKey],
                             Coin(coinToDeposit.id, coinToDeposit.originalLat,
                                  coinToDeposit.originalLng)))
                 /\ statusPanel' = <<"Deposited coin", coinToDeposit.id, lat, lng>>
                 /\ lastOp' = Op("returnCoin", positionKey, {}, TRUE)

BoardCollect ==
  \E k \in DOMAIN caches :
    /\ board_pickUpCoins(k[1], k[2])
    /\ UNCHANGED <<boardVars, seed, playerPosition, shared, geoWatchId, geoWatches>>

\* the Deposit button's listener calls returnCoin only with coins in hand
BoardDeposit ==
  \E k \in DOMAIN caches :
    /\ IF Len(playerTreasures) > 0
         THEN board_returnCoin(k[1], k[2])
         ELSE /\ lastOp' = Op("depositClick", k, {}, FALSE)
              /\ UNCHANGED <<caches, cacheStates, playerTreasures, statusPanel>>
    /\ UNCHANGED <<boardVars, seed, playerPosition, shared, geoWatchId, geoWatches>>

NextBoard == BoardKeyDown \/ BoardCollect \/ BoardDeposit

SpecBoard == InitBoard /\ [][NextBoard]_vars

\* ---- the Board class (board.ts 22-124): the registry of Cell objects ----

\* the largest tileVisibilityRadius a Board is constructed with
MaxRadius == 1

\* a point's lat and lng count half tiles (5e-5 degree), so that
\* point.lat * 1e4 is lat / PointScale tiles
PointScale == 2

\* the points the methods are called with: two in cell (1,12), one in
\* (11,2), one in (-1,-1)
BoardPoints == { <<2, 24>>, <<3, 25>>, <<22, 4>>, <<0 - 1, 0 - 1>> }

\* the tile widths a Board is constructed with, in the unit of the points:
\* 1e-4 degree (TILE_UNIT) and twice that
TileWidths == {PointScale, 2 * PointScale}

\* Math.floor(n / d) for d > 0
MathFloor(n, d) == n \div d

\* a number in a template string: the decimal digits, "-" before a negative
Digits == <<"0", "1", "2", "3", "4", "5", "6", "7", "8", "9">>

RECURSIVE NatToString(_)
NatToString(n) ==
  IF n < 10 THEN <<Digits[n + 1]>>
  ELSE NatToString(n \div 10) \o <<Digits[(n % 10) + 1]>>

NumberToString(n) ==
  IF n < 0 THEN <<"-">> \o NatToString(0 - n) ELSE NatToString(n)

CellKey_nosep(i, j) == NumberToString(i) \o NumberToString(j)

\* const key = `${i},${j}`
CellKey(i, j) == NumberToString(i) \o <<",">> \o NumberToString(j)

\* getCanonicalCell(cell) on the registry known and the heap: a miss stores
\* a new object { i, j }; the result is the address the registry holds
getCanonicalCell(known, heap, cell) ==
  LET key == CellKey(cell.i, cell.j)
      miss == key \notin DOMAIN known
      known1 == IF miss THEN known @@ (key :> (Len(heap) + 1)) ELSE known
      heap1 == IF miss THEN Append(heap, [i |-> cell.i, j |-> cell.j]) ELSE heap
  IN  [known |-> known1, heap |-> heap1, cell |-> known1[key]]

\* getCellForPoint(point)
getCellForPoint(known, heap, point) ==
  getCanonicalCell(known, heap,
                   [i |-> MathFloor(point[1], PointScale),
                    j |-> MathFloor(point[2], PointScale)])

NearOffset_colmajor(radius, n) ==
  << (n % (2 * radius + 1)) - radius, (n \div (2 * radius + 1)) - radius >>

\* <<di, dj>> of pass n (from 0) of the two loops: di outer, dj inner
NearOffset(radius, n) ==
  << (n \div (2 * radius + 1)) - radius, (n % (2 * radius + 1)) - radius >>

\* the passes n, n+1, ... of the loops of getCellsNearPoint around (i, j),
\* with resultCells as far as pass n
RECURSIVE NearLoop(_, _, _, _, _, _, _)
NearLoop(known, heap, resultCells, i, j, radius, n) ==
  IF n >= (2 * radius + 1) * (2 * radius + 1)
    THEN [known |-> known, heap |-> heap, cells |-> resultCells]
    ELSE LET d == NearOffset(radius, n)
             nearbyCell == getCanonicalCell(known, heap,
                                            [i |-> i + d[1], j |-> j + d[2]])
         IN  NearLoop(nearbyCell.known, nearbyCell.heap,
                      Append(resultCells, nearbyCell.cell), i, j, radius, n + 1)

\* getCellsNearPoint(point): i and j are read from the origin Cell object
getCellsNearPoint(known, heap, radius, point) ==
  LET originCell == getCellForPoint(known, heap, point)
  IN  NearLoop(originCell.known, originCell.heap, <<>>,
               originCell.heap[originCell.cell].i,
               originCell.heap[originCell.cell].j, radius, 0)

\* new Board(tileWidth, tileVisibilityRadius): an empty registry
InitCells ==
  /\ InitGame(ResetSeeds)
  /\ tileWidth \in TileWidths
  /\ tileVisibilityRadius \in 0..MaxRadius
  /\ knownCells = <<>>
  /\ cellHeap = <<>>
  /\ boardCall = [op |-> "none", point |-> <<0, 0>>, result |-> <<>>, allocated |-> 0]
  /\ returned = {}

\* the integer pair a point resolves to
PairOf(point) == <<MathFloor(point[1], PointScale), MathFloor(point[2], PointScale)>>

\* a call of board.getCellForPoint(point)
GetCellForPoint ==
  \E point \in BoardPoints :
    LET r == getCellForPoint(knownCells, cellHeap, point)
    IN  /\ knownCells' = r.known
        /\ cellHeap' = r.heap
        /\ boardCall' = [op |-> "getCellForPoint", point |-> point,
                         result |-> <<r.cell>>,
                         allocated |-> Len(r.heap) - Len(cellHeap)]
        /\ returned' = returned \cup
             { [pair |-> PairOf(point), cell |-> r.cell] }
        /\ UNCHANGED <<gameVars, tileWidth, tileVisibilityRadius>>

\* a call of board.getCellsNearPoint(point)
GetCellsNearPoint ==
  \E point \in BoardPoints :
    LET r == getCellsNearPoint(knownCells, cellHeap, tileVisibilityRadius, point)
        o == getCellForPoint(knownCells, cellHeap, point)
        i == o.heap[o.cell].i
        j == o.heap[o.cell].j
    IN  /\ knownCells' = r.known
        /\ cellHeap' = r.heap
        /\ boardCall' = [op |-> "getCellsNearPoint", point |-> point,
                         result |-> r.cells,
                         allocated |-> Len(r.heap) - Len(cellHeap)]
        /\ returned' = returned \cup
             { [pair |-> <<i + NearOffset(tileVisibilityRadius, n - 1)[1],
                           j + NearOffset(tileVisibilityRadius, n - 1)[2]>>,
                cell |-> boardCall'.result[n]] :
               n \in 1..Len(boardCall'.result) }
        /\ UNCHANGED <<gameVars, tileWidth, tileVisibilityRadius>>

NextCells == GetCellForPoint \/ GetCellsNearPoint

SpecCells == InitCells /\ [][NextCells]_vars

\* ---- custody ----

\* the keys that have a cache, on the map or saved
HeldKeys == (DOMAIN caches) \cup (DOMAIN cacheStates)

\* the coin sequence of a key: the active cache's, else its memento's
HeldSeq(k) == IF k \in DOMAIN caches THEN caches[k] ELSE cacheStates[k]

\* the coin record a player's treasure stands for
CoinOf(t) == Coin(t.id, t.originalLat, t.originalLng)

CountIn(seq, c) == Cardinality({ n \in 1..Len(seq) : seq[n] = c })

CountInInventory(c) ==
  Cardinality({ n \in 1..Len(playerTreasures) : CoinOf(playerTreasures[n]) = c })

RECURSIVE CountInKeys(_, _)
CountInKeys(ks, c) ==
  IF ks = {} THEN 0
  ELSE LET k == CHOOSE x \in ks : TRUE
       IN  CountIn(HeldSeq(k), c) + CountInKeys(ks \ {k}, c)

\* every coin the spawn roll can mint, and those minted so far: a key that
\* was minted for keeps a cache or a memento from then on
AllCoins ==
  { Coin(i, k[1], k[2]) : <<i, k>> \in
      { ik \in (0..(CACHE_ODDS - 1)) \X (DOMAIN LuckHits) :
          ik[1] <= LuckHits[ik[2]] } }

MintedCoins == { c \in AllCoins : <<c.originalLat, c.originalLng>> \in HeldKeys }

\* C1: each coin ever minted is held in exactly one place, one cache's
\* sequence (active, or its memento while evicted) or the player inventory
C1_ExactlyOnePlace ==
  \A c \in MintedCoins : CountInKeys(HeldKeys, c) + CountInInventory(c) = 1

\* the coin sequence a key holds is empty, on the map or saved
HoldsNothing(k) == k \in HeldKeys /\ HeldSeq(k) = <<>>

\* C2: a cache that holds zero coins when it is evicted is not re-rolled when
\* its cell re-enters the window: a window re-evaluation mints nothing for it
\* and it holds zero coins afterwards
C2_EmptyStaysEmpty ==
  [][\A k \in Keys :
       (HoldsNothing(k) /\ lastOp'.op \in RegenOps)
         => (k \notin lastOp'.minted /\ HoldsNothing(k)')]_vars

\* C3: a cache evicted with a non-empty coin sequence comes back, when its
\* key re-enters the window, with exactly that sequence and without a spawn
\* roll; while it stays evicted its memento keeps the sequence
C3_RestoreVerbatim ==
  [][\A k \in HeldKeys :
       (HeldSeq(k) # <<>> /\ lastOp'.op \in RegenOps)
         => /\ k \in HeldKeys'
            /\ HeldSeq(k)' = HeldSeq(k)
            /\ k \notin lastOp'.minted]_vars

\* a non-empty cache away from the player has just been restored from its memento
C3_Witness ==
  /\ lastOp.op \in RegenOps
  /\ \E k \in shared :
       k # playerPosition /\ caches[k] # <<>> /\ k \notin lastOp.minted

\* C4: collect on a non-empty cache removes the last coin of the cache's
\* sequence and appends it to the end of the player inventory; the inventory
\* grows by one and the cache shrinks by one
C4_CollectLIFO ==
  [][(lastOp'.op = "pickUpCoins" /\ caches[lastOp'.key] # <<>>)
       => LET k == lastOp'.key
              s == caches[k]
          IN  /\ caches'[k] = SubSeq(s, 1, Len(s) - 1)
              /\ Len(playerTreasures') = Len(playerTreasures) + 1
              /\ SubSeq(playerTreasures', 1, Len(playerTreasures)) = playerTreasures
              /\ CoinOf(playerTreasures'[Len(playerTreasures')]) = s[Len(s)]]_vars

\* two collects from one cache [c0, c1] have yielded c1, then c0
C4_Witness ==
  /\ lastOp.op = "pickUpCoins" /\ lastOp.moved
  /\ Len(playerTreasures) = 2
  /\ playerTreasures[1].coordinates = lastOp.key
  /\ playerTreasures[2].coordinates = lastOp.key
  /\ CoinOf(playerTreasures[1]) = Coin(1, lastOp.key[1], lastOp.key[2])
  /\ CoinOf(playerTreasures[2]) = Coin(0, lastOp.key[1], lastOp.key[2])
  /\ caches[lastOp.key] = <<>>

\* C5 as claimed: every minted coin is in the sequence of the cache it was
\* minted in or in the player inventory, in exactly one of the two
C5_InOriginOrInventory ==
  \A c \in MintedCoins :
    CountIn(HeldSeq(<<c.originalLat, c.originalLng>>), c) + CountInInventory(c) = 1

\* the number of places a coin has among the caches on the map
RECURSIVE CountInCaches(_, _)
CountInCaches(ks, c) ==
  IF ks = {} THEN 0
  ELSE LET k == CHOOSE x \in ks : TRUE
       IN  CountIn(caches[k], c) + CountInCaches(ks \ {k}, c)

\* C5 amended: through collects and deposits every minted coin is in the
\* sequence of exactly one cache, its own or another, or in the player
\* inventory, never both and never neither
C5_InOneCacheOrInventory ==
  \A c \in MintedCoins :
    CountInCaches(DOMAIN caches, c) + CountInInventory(c) = 1

\* a coin lies in a cache it was not minted in
C5_Witness ==
  /\ lastOp.op = "returnCoin" /\ lastOp.moved
  /\ \E n \in 1..Len(caches[lastOp.key]) :
       <<caches[lastOp.key][n].originalLat, caches[lastOp.key][n].originalLng>>
         # lastOp.key

\* C6: collect on a cache whose coin sequence is empty changes nothing: the
\* player inventory, every cache and the memento store stay as they were
C6_EmptyCollectNoOp ==
  [][(lastOp'.op = "pickUpCoins" /\ caches[lastOp'.key] = <<>>)
       => UNCHANGED <<playerTreasures, caches, cacheStates, shared>>]_vars

\* a collect has just been tried on an empty cache
C6_Witness ==
  /\ lastOp.op = "pickUpCoins" /\ ~lastOp.moved
  /\ lastOp.key \in DOMAIN caches
  /\ caches[lastOp.key] = <<>>

\* C7: deposit with an empty player inventory changes nothing: the target
\* cache, every other cache, the mementos and the inventory stay as they were
C7_EmptyDepositNoOp ==
  [][(lastOp'.op = "returnCoin" /\ playerTreasures = <<>>)
       => UNCHANGED <<playerTreasures, caches, cacheStates, shared>>]_vars

\* a deposit has just been tried with nothing in the inventory
C7_Witness ==
  /\ lastOp.op = "returnCoin" /\ ~lastOp.moved
  /\ lastOp.key \in DOMAIN caches
  /\ playerTreasures = <<>>

\* C8: deposit with a non-empty inventory removes the last coin of the
\* inventory and appends it to the end of the target cache's sequence; the
\* rest of the inventory, the rest of the cache and the other caches stay
C8_DepositLIFO ==
  [][(lastOp'.op = "returnCoin" /\ playerTreasures # <<>>)
       => LET k == lastOp'.key
              n == Len(playerTreasures)
          IN  /\ playerTreasures' = SubSeq(playerTreasures, 1, n - 1)
              /\ caches' = [caches EXCEPT
                             ![k] = caches[k] \o <<CoinOf(playerTreasures[n])>>]]_vars

\* a deposit onto a non-empty cache that left a coin in the inventory
C8_Witness ==
  /\ lastOp.op = "returnCoin" /\ lastOp.moved
  /\ Len(caches[lastOp.key]) >= 2
  /\ playerTreasures # <<>>

\* how many records of coin c there are, in caches, mementos and inventory
Copies(c) == CountInKeys(HeldKeys, c) + CountInInventory(c)

\* every coin record held anywhere carries an id and origin that was minted
RecordsAreMinted ==
  /\ \A k \in HeldKeys : \A n \in 1..Len(HeldSeq(k)) : HeldSeq(k)[n] \in MintedCoins
  /\ \A n \in 1..Len(playerTreasures) : CoinOf(playerTreasures[n]) \in MintedCoins

\* C9: a coin's id and origin never change: in every step each id and origin
\* keeps the records it had, plus the one a spawn roll of this step mints,
\* and no record with any other id or origin appears
C9_OriginKept ==
  [][/\ \A c \in AllCoins :
          Copies(c)' = Copies(c) +
            (IF <<c.originalLat, c.originalLng>> \in lastOp'.minted THEN 1 ELSE 0)
     /\ RecordsAreMinted']_vars

\* after an evict / restore cycle a cache holds a coin minted elsewhere
C9_Witness ==
  /\ lastOp.op \in RegenOps
  /\ \E k \in shared : \E n \in 1..Len(caches[k]) :
       <<caches[k][n].originalLat, caches[k][n].originalLng>> # k

\* the texts the status panel starts with and the successful transfers write
SuccessTexts == {"Player has no coins", "Collected coin", "Deposited coin"}

\* C10: a collect on an empty cache and a deposit with an empty inventory
\* each leave a status message that reports the failure
C10_FailureReported ==
  (lastOp.op \in {"pickUpCoins", "returnCoin"} /\ ~lastOp.moved)
    => statusPanel[1] \notin SuccessTexts

\* the handlers that move a coin between a cache and the inventory
TransferOps == {"pickUpCoins", "returnCoin"}

\* C11: the player inventory is changed only by collect and deposit; player
\* movement, window re-evaluation, eviction, restoration, geolocation start
\* and stop, and game reset leave it as it was
C11_InventoryFrame ==
  [][lastOp'.op \notin TransferOps => playerTreasures' = playerTreasures]_vars

\* the handlers that may create or remove caches while tracking is off
UntrackedRegenOps == {"keydown", "resetGameState"}

\* C12: while geolocation tracking is stopped no watch is left registered,
\* no position callback runs (none sets the player position or calls
\* regenerateCaches), and the set of active caches changes only in a key
\* press or a reset; this lasts until tracking is started again
C12_StoppedIsQuiet ==
  [][geoWatchId = NULL
       => /\ geoWatches = {}
          /\ lastOp'.op # "geoPosition"
          /\ (DOMAIN caches' # DOMAIN caches
                => lastOp'.op \in UntrackedRegenOps)]_vars

\* tracking has just been stopped, with the player away from the start
C12_Witness ==
  /\ lastOp.op = "stopGeolocationTracking"
  /\ geoWatchId = NULL
  /\ playerPosition = <<MaxLat, MaxLng>>

\* C13: Cell references are canonical: of all the references the Board has
\* returned (getCellForPoint results and getCellsNearPoint entries, for any
\* points, any number of times), two are the same instance exactly when they
\* were returned for the same integer pair (i, j), negative pairs included,
\* and the instance carries that pair
C13_ReferenceStable ==
  /\ \A a \in returned : \A b \in returned :
       (a.pair = b.pair) <=> (a.cell = b.cell)
  /\ \A a \in returned :
       cellHeap[a.cell] = [i |-> a.pair[1], j |-> a.pair[2]]

\* getCellForPoint has just returned, for a pair with a negative index, an
\* instance that an earlier call had created, and two pairs that share their
\* digits have been returned
C13_Witness ==
  /\ boardCall.op = "getCellForPoint" /\ boardCall.allocated = 0
  /\ PairOf(boardCall.point)[1] < 0
  /\ \E a \in returned : \E b \in returned :
       a.pair = <<1, 12>> /\ b.pair = <<11, 2>>

\* C14: getCellsNearPoint with radius r returns the (2r+1)^2 cells
\* (i+di, j+dj), di and dj in -r..r, around the cell (i, j) of the point, in
\* row-major order (di outer, dj inner), each cell once; with r = 0 the
\* result is the origin cell alone
C14_NearRowMajor ==
  boardCall.op = "getCellsNearPoint"
    => LET r == tileVisibilityRadius
           w == 2 * r + 1
           o == PairOf(boardCall.point)
           cells == boardCall.result
       IN  /\ Len(cells) = w * w
           /\ \A a \in 0..(w - 1) : \A b \in 0..(w - 1) :
                cellHeap[cells[a * w + b + 1]] =
                  [i |-> o[1] + a - r, j |-> o[2] + b - r]
           /\ \A m \in 1..Len(cells) : \A n \in 1..Len(cells) :
                cells[m] = cells[n] => m = n
           /\ (r = 0 => cells = <<knownCells[CellKey(o[1], o[2])]>>)

\* a neighbourhood of nine cells around a cell with a negative index
C14_Witness ==
  /\ boardCall.op = "getCellsNearPoint"
  /\ tileVisibilityRadius = 1
  /\ Len(boardCall.result) = 9
  /\ PairOf(boardCall.point)[1] < 0

\* the caches a window re-evaluation at position saves and removes
EvictedAt(position) ==
  regenerateCaches(caches, cacheStates, shared, position,
                   NEIGHBORHOOD_SIZE, TILE_UNIT).evicted

\* the square of the distance of two keys, in the units of tileSize
DistanceSq(a, b) ==
  (a[1] - b[1]) * (a[1] - b[1]) + (a[2] - b[2]) * (a[2] - b[2])

\* C15: a window re-evaluation evicts a cache only if its cell is farther
\* from the player's position than the visibility radius, both in tiles; a
\* cache within NEIGHBORHOOD_SIZE tiles of the player is not evicted
C15_EvictOnlyFar ==
  [][lastOp'.op \in RegenOps
       => \A k \in EvictedAt(playerPosition') :
            DistanceSq(k, playerPosition')
              > (NEIGHBORHOOD_SIZE * TILE_UNIT) * (NEIGHBORHOOD_SIZE * TILE_UNIT)]_vars

\* a cell that is to have a cache: a non-empty memento, or a passing roll
Qualifies(k) ==
  \/ k \in DOMAIN cacheStates /\ cacheStates[k] # <<>>
  \/ luck(k) < CACHE_ODDS

\* C16: when a movement event (an arrow key, a geolocation update) has been
\* handled, no active cache is outside the square window of NEIGHBORHOOD_SIZE
\* tiles around the player, and every cell of the window that qualifies has
\* an active cache
C16_WindowRecomputed ==
  lastOp.op \in RegenOps
    => /\ \A k \in DOMAIN caches :
            InWindow(k, playerPosition, NEIGHBORHOOD_SIZE, TILE_UNIT)
       /\ \A k \in Keys :
            (InWindow(k, playerPosition, NEIGHBORHOOD_SIZE, TILE_UNIT)
               /\ Qualifies(k)) => k \in DOMAIN caches

\* C17: re-evaluating the window is idempotent: a second regenerateCaches
\* right after a first, at the same player position, leaves the active
\* caches with their coin sequences, the mementos and the inventory as the
\* first left them
C17_RegenerateIdempotent ==
  [][(lastOp.op \in RegenOps /\ lastOp'.op \in RegenOps
        /\ playerPosition' = playerPosition)
       => /\ caches' = caches
          /\ cacheStates' = cacheStates
          /\ playerTreasures' = playerTreasures]_vars

\* C18: a stored memento is an immutable snapshot: the memento of a key
\* stays as it is in every step but a window re-evaluation that evicts that
\* key again; collect and deposit on the restored cache, and minting, leave
\* it unchanged
C18_MementoImmutable ==
  [][\A k \in DOMAIN cacheStates :
       \/ lastOp'.op \in RegenOps /\ k \in EvictedAt(playerPosition')
       \/ k \in DOMAIN cacheStates' /\ cacheStates'[k] = cacheStates[k]]_vars

\* the keys whose spawn roll passes
PassingKeys == { k \in DOMAIN LuckHits : luck(k) < CACHE_ODDS }

\* C19: in a window re-evaluation, a cell with no cache and no memento that
\* is in the new window gets a cache exactly when luck(key) < CACHE_ODDS;
\* the new cache holds n >= 1 coins with ids 0..n-1 and that cell as their
\* origin; a cell whose roll fails gets no cache and no memento
C19_SpawnOnRoll ==
  [][lastOp'.op \in RegenOps
       => /\ \A k \in PassingKeys :
               (k \notin DOMAIN caches /\ k \notin DOMAIN cacheStates
                  /\ InWindow(k, playerPosition', NEIGHBORHOOD_SIZE, TILE_UNIT))
                 => k \in DOMAIN caches'
          /\ \A k \in DOMAIN caches' :
               (k \notin DOMAIN caches /\ k \notin DOMAIN cacheStates)
                 => /\ InWindow(k, playerPosition', NEIGHBORHOOD_SIZE, TILE_UNIT)
                    /\ luck(k) < CACHE_ODDS
                    /\ Len(caches'[k]) >= 1
                    /\ \A n \in 1..Len(caches'[k]) :
                         caches'[k][n] = Coin(n - 1, k[1], k[2])
          /\ \A k \in DOMAIN cacheStates' :
               k \in DOMAIN caches \/ k \in DOMAIN cacheStates]_vars

\* a window re-evaluation has just spawned a cache for a cell that had no
\* memento
C19_Witness ==
  /\ lastOp.op \in RegenOps
  /\ \E k \in lastOp.minted :
       /\ k \notin DOMAIN cacheStates
       /\ k \in DOMAIN caches /\ Len(caches[k]) >= 1

\* C20: the spawn roll and the coin-count roll of a cell use different
\* generator keys, so that the count is not a function of the value that
\* decided the spawn: for every cell a cache is minted for, the two keys
\* differ
C20_DisjointRollKeys ==
  \A k \in lastOp.minted : SpawnRollKey(k) # CountRollKey(k)

\* C21: getCellForPoint returns the cell i = floor(lat / tileWidth),
\* j = floor(lng / tileWidth) for the tile width the Board was constructed
\* with, rounding toward negative infinity
C21_FloorByTileWidth ==
  boardCall.op = "getCellForPoint"
    => cellHeap[boardCall.result[1]] =
         [i |-> MathFloor(boardCall.point[1], tileWidth),
          j |-> MathFloor(boardCall.point[2], tileWidth)]

\* the caches the module starts with: the first window, nothing saved
FreshCaches ==
  initiateCaches(EmptyMap, EmptyMap, {}, CLASSROOM_LOCATION,
                 NEIGHBORHOOD_SIZE, TILE_UNIT).caches

\* C22: after a confirmed resetGameState the game is in its initial state:
\* the inventory is empty, the player is at CLASSROOM_LOCATION and the active
\* caches are those freshly generated around CLASSROOM_LOCATION with their
\* initial coins, whatever collects, deposits and evictions came before
C22_ResetToInitial ==
  (lastOp.op = "resetGameState" /\ lastOp.moved)
    => /\ playerTreasures = <<>>
       /\ playerPosition = CLASSROOM_LOCATION
       /\ caches = FreshCaches

\* the coins of an inventory, by id and origin, in order
CoinsOf(treasures) == [n \in 1..Len(treasures) |-> CoinOf(treasures[n])]

\* C23: a collect from a non-empty cache followed at once by a deposit into
\* the same cache is a round trip: the cache's coin sequence and the player
\* inventory (by coin id and origin, in order) are what they were before the
\* collect
C23_CollectDepositRoundTrip ==
  [][(lastOp.op = "pickUpCoins" /\ lastOp.moved
        /\ lastOp'.op = "returnCoin" /\ lastOp'.key = lastOp.key)
       => /\ lastOp'.moved
          /\ caches'[lastOp.key] = lastOp.before.treasures
          /\ CoinsOf(playerTreasures') = CoinsOf(lastOp.before.inventory)]_vars

\* a round trip has just ended on a cache that kept a coin, with a coin in
\* the inventory
C23_Witness ==
  /\ lastOp.op = "returnCoin" /\ lastOp.moved /\ lastOp.roundTrip
  /\ Len(caches[lastOp.key]) >= 2
  /\ playerTreasures # <<>>

\* C24: every cache main.ts has just minted holds between 1 and 10 coins:
\* the count floor(luck(key) * 100) + 1 comes from the value that was below
\* CACHE_ODDS
C24_MintedOneToTen ==
  \A k \in lastOp.minted :
    /\ k \in DOMAIN caches
    /\ Len(caches[k]) >= 1
    /\ Len(caches[k]) <= 10

\* a cache has just been minted with ten coins
C24_Witness ==
  \E k \in lastOp.minted : k \in DOMAIN caches /\ Len(caches[k]) = 10

\* C25: at most one geolocation watch is registered at any time, geoWatchId
\* is non-null exactly when a watch is registered (and then names it), and
\* startGeolocationTracking while a watch is registered changes nothing, for
\* every sequence of button clicks and of start and stop calls
C25_AtMostOneWatch ==
  [][/\ Cardinality(geoWatches') <= 1
     /\ (geoWatchId' # NULL <=> geoWatches' # {})
     /\ (geoWatchId' # NULL => geoWatches' = {geoWatchId'})
     /\ ((lastOp'.op = "startGeolocationTracking" /\ geoWatchId # NULL)
           => UNCHANGED <<geoWatchId, geoWatches>>)]_vars

\* startGeolocationTracking has just been called while a watch was registered
C25_Witness ==
  /\ lastOp.op = "startGeolocationTracking" /\ ~lastOp.registered
  /\ geoWatches = {geoWatchId}
====
